---- MODULE Spec2Model ----
(***************************************************************************)
(* Model of neodojo's diagnostics and test-result aggregation:             *)
(*   src/asan.rs      Asan::try_from_file   (sanitizer log scanner)        *)
(*   src/gunit.rs     UnitTest / TestCase   (test report model)            *)
(*   src/cli/test.rs  exec_test, run, command (probe fusion, rendering)    *)
(*   src/sarif.rs     try_get_byte_offset, get_byte_range (regions)        *)
(*                                                                         *)
(* Texts are sequences of tokens.  A sanitizer log is a sequence whose     *)
(* tokens are the literal substrings the scanner searches for, the line    *)
(* break, and a filler for any other text; none of the searched literals   *)
(* overlaps another, so a substring search is a search for a token.        *)
(* An Option is a sequence of length 0 (None) or 1 (Some).                 *)
(***************************************************************************)
EXTENDS Integers, Sequences, FiniteSets, TLC

VARIABLES
    pc,          \* position of the test execution (command -> run -> exec_test)
    logFile,     \* content of memory.txt: None when it cannot be read
    resultsFile, \* test_detail.json: missing, unparsable or a parsed report
    asan,        \* result of Asan::try_from_file
    gunit,       \* result of UnitTest::try_from_file
    final,       \* result of exec_test
    stdout,      \* what has been printed, in order
    report,      \* a UnitTest under a sequence of add_suite calls
    added,       \* the suites passed to add_suite so far, in call order
    content,     \* text of the source file a region refers to
    region,      \* a SARIF region descriptor
    range,       \* result of get_byte_range
    bpc,         \* position of the build (exec_build, then run or command)
    lines,       \* the lines of the build's stderr read so far
    diagnostics, \* the BuildDiagnostic collected so far: a sequence of runs
    buildResult, \* result of exec_build
    emitted,     \* the diagnostics emitted to the terminal, in order
    renders      \* number of BuildDiagnostic::pretty_print calls made

vars == <<pc, logFile, resultsFile, asan, gunit, final, stdout,
          report, added, content, region, range,
          bpc, lines, diagnostics, buildResult, emitted, renders>>

testVars == <<pc, logFile, resultsFile, asan, gunit, final, stdout>>
suiteVars == <<report, added>>
regionVars == <<content, region, range>>
buildVars == <<bpc, lines, diagnostics, buildResult, emitted, renders>>

(***************************************************************************)
(* Bounds                                                                  *)
(***************************************************************************)
MaxLogLen == 3      \* tokens in a sanitizer log
MaxSuites == 2      \* suites in a structured test report
MaxAdds == 3        \* add_suite calls in a sequence
MaxContent == 3     \* bytes in a source file
MaxPos == 2         \* largest line, column, offset or length of a region
MaxLines == 2       \* lines of build output read
MaxRuns == 2        \* runs in an analysis report
MaxFindings == 2    \* findings in a run
MaxRenders == 2     \* BuildDiagnostic::pretty_print calls

None == <<>>
Some(v) == <<v>>
IsSome(o) == Len(o) = 1
Unwrap(o) == o[1]

Min(a, b) == IF a < b THEN a ELSE b

RECURSIVE SeqsUpTo(_, _)
SeqsUpTo(S, n) ==
    IF n = 0 THEN {<<>>}
    ELSE LET shorter == SeqsUpTo(S, n - 1)
         IN shorter \cup {Append(s, x) : s \in {t \in shorter : Len(t) = n - 1}, x \in S}

(***************************************************************************)
(* src/asan.rs                                                             *)
(***************************************************************************)
NL == "\n"
DetectorsReordered ==
    << [key |-> "address_sanitizer", name |-> "AddressSanitizer",
        search |-> "ERROR: AddressSanitizer: "],
       [key |-> "leak_sanitizer", name |-> "LeakSanitizer",
        search |-> "ERROR: LeakSanitizer: "],
       [key |-> "undefined_behavior_sanitizer", name |-> "UndefinedBehaviorSanitizer",
        search |-> "ERROR: UndefinedBehaviorSanitizer: "] >>

Detectors ==
    << [key |-> "address_sanitizer", name |-> "AddressSanitizer",
        search |-> "ERROR: AddressSanitizer: "],
       [key |-> "undefined_behavior_sanitizer", name |-> "UndefinedBehaviorSanitizer",
        search |-> "ERROR: UndefinedBehaviorSanitizer: "],
       [key |-> "leak_sanitizer", name |-> "LeakSanitizer",
        search |-> "ERROR: LeakSanitizer: "] >>

LogTokens == {Detectors[i].search : i \in 1..Len(Detectors)} \cup {"DEADLYSIGNAL", "ABORTING", "text", NL}

\* str::contains
contains(text, pat) == \E i \in 1..Len(text) : text[i] = pat

\* str::split_once: None, or Some of the parts around the first occurrence
split_once(text, pat) ==
    IF contains(text, pat)
    THEN LET i == CHOOSE k \in 1..Len(text) :
                      text[k] = pat /\ \A j \in 1..(k - 1) : text[j] # pat
         IN Some(<<SubSeq(text, 1, i - 1), SubSeq(text, i + 1, Len(text))>>)
    ELSE None

\* TestCase { name, ..Default::default() }
DefaultTestCase(name) ==
    [name |-> name, tests |-> 0, failures |-> 0, disabled |-> 0, errors |-> 0,
     time |-> "", testsuite |-> <<>>]

\* TestInfo { name, classname, failures, ..Default::default() }
MkTestInfo(name, classname, file, failures) ==
    [name |-> name, classname |-> classname, file |-> file, failures |-> failures]

MkTestFailure(message) == [failure |-> message, kind |-> ""]

\* file.split_once(&search).and_then(|(_, m)| Some(m.split_once('\n')?.0))
DetectorMessage(file, search) ==
    LET found == split_once(file, search)
    IN IF ~IsSome(found) THEN None
       ELSE LET line == split_once(Unwrap(found)[2], NL)
            IN IF IsSome(line) THEN Some(Unwrap(line)[1]) ELSE None

DetectorCase(file, d) ==
    LET message == DetectorMessage(file, d.search)
    IN MkTestInfo(d.key, "sanitizer", "",
                  IF IsSome(message) THEN <<MkTestFailure(Unwrap(message))>> ELSE <<>>)

CountFailing(cases) == Cardinality({i \in 1..Len(cases) : cases[i].failures # <<>>})

ScanErrors(file) ==
    IF contains(file, "DEADLYSIGNAL") \/ contains(file, "ABORTING") THEN 1 ELSE 0

ScanOutcomeByErrors(suite) == suite.failures = 0 /\ suite.errors = 0

ScanOutcome(suite) == suite.failures = 0

\* Asan::try_from_file once the log is read: the Result, and what it printed
\* (the raw log, when it returns Err)
ScanText(text) ==
    LET cases == [i \in 1..Len(Detectors) |-> DetectorCase(text, Detectors[i])]
        suite == [DefaultTestCase("sanitizer") EXCEPT
                     !.testsuite = cases,
                     !.tests = Len(cases),
                     !.errors = ScanErrors(text),
                     !.failures = CountFailing(cases)]
    IN IF ScanOutcome(suite)
       THEN [ok |-> TRUE, suite |-> suite, printed |-> None]
       ELSE [ok |-> FALSE, suite |-> suite, printed |-> Some(text)]

Asan_try_from_file_missing_as_empty(file) ==
    ScanText(IF IsSome(file) THEN Unwrap(file) ELSE <<>>)

\* Asan::try_from_file on the outcome of read_to_string
Asan_try_from_file(file) ==
    IF ~IsSome(file)
    THEN [ok |-> TRUE, suite |-> DefaultTestCase("sanitizer"), printed |-> None]
    ELSE ScanText(Unwrap(file))

(***************************************************************************)
(* src/gunit.rs                                                            *)
(***************************************************************************)
Ok(v) == [ok |-> TRUE, val |-> v]
Err(e) == [ok |-> FALSE, err |-> e]

IoError == [kind |-> "IoError"]
DeserializationError == [kind |-> "DeserializationError"]
ExecutionError(msg) == [kind |-> "ExecutionError", msg |-> msg]
TestFailed(test) == [kind |-> "TestFailed", test |-> test]

\* u32 addition.  The counts of a report stay far below 2^32 (one per test
\* case); 2^32 itself is beyond TLC's integers, so overflow is not modelled.
AddU32(a, b) == a + b

add_suite_no_push(self, suite) ==
    [self EXCEPT !.tests = AddU32(@, suite.tests),
                 !.failures = AddU32(@, suite.failures),
                 !.disabled = AddU32(@, suite.disabled),
                 !.errors = AddU32(@, suite.errors)]

add_suite_recount(self, suite) ==
    [self EXCEPT !.tests = AddU32(@, Len(suite.testsuite)),
                 !.failures = AddU32(@, CountFailing(suite.testsuite)),
                 !.disabled = AddU32(@, suite.disabled),
                 !.errors = AddU32(@, suite.errors),
                 !.testsuites = Append(@, suite)]

\* UnitTest::add_suite
add_suite(self, suite) ==
    [self EXCEPT !.tests = AddU32(@, suite.tests),
                 !.failures = AddU32(@, suite.failures),
                 !.disabled = AddU32(@, suite.disabled),
                 !.errors = AddU32(@, suite.errors),
                 !.testsuites = Append(@, suite)]

\* UnitTest::has_failed
has_failed(self) == self.failures > 0 \/ self.errors > 0

\* impl TryFrom<TestCase> for UnitTest
UnitTest_try_from(test) ==
    LET unit == [name |-> test.name, tests |-> test.tests, failures |-> test.failures,
                 disabled |-> test.disabled, errors |-> test.errors,
                 timestamp |-> "", time |-> test.time, testsuites |-> <<test>>]
    IN IF unit.errors > 0 THEN Err(ExecutionError(""))
       ELSE IF unit.failures > 0 THEN Err(TestFailed(unit))
       ELSE Ok(unit)

\* The outcome of read_to_string and serde_json::from_str on test_detail.json
Missing == [kind |-> "missing"]
Unparsable == [kind |-> "unparsable"]
Parsed(test) == [kind |-> "json", test |-> test]

\* UnitTest::try_from_file
UnitTest_try_from_file(file) ==
    IF file.kind = "missing" THEN Err(IoError)
    ELSE IF file.kind = "unparsable" THEN Err(DeserializationError)
    ELSE IF has_failed(file.test) THEN Err(TestFailed(file.test))
    ELSE Ok(file.test)

\* One line per case; the detail of a failing case (TestInfo::print_details)
CaseLine(test) ==
    [kind |-> "test", classname |-> test.classname, name |-> test.name,
     failed |-> (test.failures # <<>>)]

print_details(test) ==
    [kind |-> "details", classname |-> test.classname, name |-> test.name,
     file |-> test.file,
     first |-> SubSeq(test.failures, 1, Min(1, Len(test.failures))),
     more |-> IF Len(test.failures) > 1 THEN Len(test.failures) - 1 ELSE 0]

RECURSIVE FlatCases(_)
FlatCases(suites) ==
    IF suites = <<>> THEN <<>> ELSE Head(suites).testsuite \o FlatCases(Tail(suites))

SelectFailing(cases) == SelectSeq(cases, LAMBDA c : c.failures # <<>>)

\* UnitTest::pretty_print: the lines printed, in order
pretty_print(self) ==
    LET cases == FlatCases(self.testsuites)
        failing == SelectFailing(cases)
    IN <<[kind |-> "ran", tests |-> self.tests]>>
       \o [i \in 1..Len(cases) |-> CaseLine(cases[i])]
       \o (IF self.failures > 0
           THEN <<[kind |-> "failures:"]>>
                \o [i \in 1..Len(failing) |-> print_details(failing[i])]
           ELSE <<>>)
       \o <<[kind |-> "result", failed |-> (self.failures > 0),
             passed |-> self.tests - self.failures,
             failures |-> self.failures, ignored |-> self.disabled]>>

(***************************************************************************)
(* src/cli/test.rs                                                         *)
(***************************************************************************)
exec_test_match_report_error_first(g, a) ==
    IF g.ok /\ a.ok
    THEN Ok(add_suite(g.val, a.suite))
    ELSE IF g.ok /\ ~a.ok
    THEN Err(TestFailed(add_suite(g.val, a.suite)))
    ELSE IF ~g.ok /\ g.err.kind = "TestFailed"
    THEN Err(TestFailed(add_suite(g.err.test, a.suite)))
    ELSE Err(g.err)

exec_test_match_sanitizer_ignored(g, a) ==
    IF g.ok /\ a.ok
    THEN Ok(add_suite(g.val, a.suite))
    ELSE IF g.ok /\ ~a.ok
    THEN Ok(add_suite(g.val, a.suite))
    ELSE IF ~g.ok /\ g.err.kind = "TestFailed"
    THEN Err(TestFailed(add_suite(g.err.test, a.suite)))
    ELSE IF ~a.ok
    THEN UnitTest_try_from(a.suite)
    ELSE Err(g.err)

\* exec_test: match (gunit, asan), the arms in their order
exec_test_match(g, a) ==
    IF g.ok /\ a.ok
    THEN Ok(add_suite(g.val, a.suite))
    ELSE IF g.ok /\ ~a.ok
    THEN Err(TestFailed(add_suite(g.val, a.suite)))
    ELSE IF ~g.ok /\ g.err.kind = "TestFailed"
    THEN Err(TestFailed(add_suite(g.err.test, a.suite)))
    ELSE IF ~a.ok
    THEN UnitTest_try_from(a.suite)
    ELSE Err(g.err)

(***************************************************************************)
(* src/sarif.rs, with the codespan_reporting::files operations it calls.   *)
(* A source text is a sequence of bytes: "a" (a one-byte character), the   *)
(* line break, and "H" "T" (the two bytes of a two-byte character).  Byte  *)
(* offsets and line indexes count from 0, lines and columns from 1.        *)
(***************************************************************************)
\* files::line_starts: 0 and the offset after every line break
line_starts(source) ==
    LET starts[i \in 0..Len(source)] ==
            IF i = 0 THEN <<0>>
            ELSE IF source[i] = NL THEN Append(starts[i - 1], i)
            ELSE starts[i - 1]
    IN starts[Len(source)]

\* SimpleFile::line_start: Err (None) past the line after the last
line_start(source, line_index) ==
    LET starts == line_starts(source)
    IN IF line_index < Len(starts) THEN Some(starts[line_index + 1])
       ELSE IF line_index = Len(starts) THEN Some(Len(source))
       ELSE None

\* Files::line_range: from the start of the line to the start of the next
line_range(source, line_index) ==
    LET first == line_start(source, line_index)
        next == line_start(source, line_index + 1)
    IN IF IsSome(first) /\ IsSome(next)
       THEN Some([start |-> Unwrap(first), end |-> Unwrap(next)])
       ELSE None

\* Files::line_index: binary search of the byte in the line starts
line_index_of(source, byte_index) ==
    LET starts == line_starts(source)
    IN Cardinality({k \in 1..Len(starts) : starts[k] <= byte_index}) - 1

\* str::is_char_boundary
is_char_boundary(source, index) ==
    IF index = 0 \/ index = Len(source) THEN TRUE
    ELSE IF index > Len(source) THEN FALSE
    ELSE source[index + 1] # "T"

\* files::column_index
column_index(source, lrange, byte_index) ==
    LET end_index == Min(byte_index, Min(lrange.end, Len(source)))
    IN Cardinality({b \in lrange.start..(end_index - 1) : is_char_boundary(source, b + 1)})

\* Files::column_number
column_number(source, line_index, byte_index) ==
    LET lrange == line_range(source, line_index)
    IN IF IsSome(lrange)
       THEN Some(column_index(source, Unwrap(lrange), byte_index) + 1)
       ELSE None

\* Files::location(..).column_number
location_column(source, byte_index) ==
    column_number(source, line_index_of(source, byte_index), byte_index)

\* try_get_byte_offset: the first byte of the line at the column, if any
try_get_byte_offset(source, row, column) ==
    LET lrange == line_range(source, row - 1)
    IN IF ~IsSome(lrange) THEN None
       ELSE LET hits == {b \in Unwrap(lrange).start..(Unwrap(lrange).end - 1) :
                            location_column(source, b) = Some(column)}
            IN IF hits = {} THEN None
               ELSE Some(CHOOSE b \in hits : \A c \in hits : b <= c)

\* Option::or
OrElse(o, other) == IF IsSome(o) THEN o ELSE other

\* get_byte_range: let byte_offset = ..
region_start(source, r) ==
    IF IsSome(r.byte_offset) THEN r.byte_offset
    ELSE IF IsSome(r.start_line)
    THEN try_get_byte_offset(source, Unwrap(r.start_line),
                             Unwrap(OrElse(r.start_column, Some(1))))
    ELSE None

\* get_byte_range: the column of the last byte of the end line
last_column(source, r) ==
    LET line == OrElse(r.end_line, r.start_line)
    IN IF ~IsSome(line) THEN None
       ELSE LET lrange == line_range(source, Unwrap(line) - 1)
            IN IF ~IsSome(lrange) \/ Unwrap(lrange).start >= Unwrap(lrange).end THEN None
               ELSE column_number(source, Unwrap(line) - 1, Unwrap(lrange).end - 1)

\* get_byte_range: let byte_end = .., given Some(byte_offset)
region_end(source, r, byte_offset) ==
    IF IsSome(r.byte_length) THEN byte_offset + Unwrap(r.byte_length)
    ELSE LET end_line == OrElse(r.end_line, r.start_line)
             end_column == OrElse(r.end_column, last_column(source, r))
         IN IF IsSome(end_line) /\ IsSome(end_column)
            THEN LET found == try_get_byte_offset(source, Unwrap(end_line), Unwrap(end_column))
                 IN IF IsSome(found) THEN Unwrap(found) ELSE byte_offset
            ELSE byte_offset

get_byte_range_lines_first(source, r) ==
    LET resolved == IF IsSome(r.start_line)
                    THEN try_get_byte_offset(source, Unwrap(r.start_line),
                                             Unwrap(OrElse(r.start_column, Some(1))))
                    ELSE None
        byte_offset == OrElse(resolved, r.byte_offset)
    IN IF IsSome(byte_offset)
       THEN [start |-> Unwrap(byte_offset),
             end |-> region_end(source, r, Unwrap(byte_offset))]
       ELSE [start |-> 0, end |-> 0]

\* get_byte_range
get_byte_range(source, r) ==
    LET byte_offset == region_start(source, r)
    IN IF IsSome(byte_offset)
       THEN [start |-> Unwrap(byte_offset),
             end |-> region_end(source, r, Unwrap(byte_offset))]
       ELSE [start |-> 0, end |-> 0]

(***************************************************************************)
(* Inputs                                                                  *)
(***************************************************************************)
PassingCase == MkTestInfo("passes", "Suite", "test.c", <<>>)
FailingCase == MkTestInfo("fails", "Suite", "test.c",
                          <<MkTestFailure(<<"text">>), MkTestFailure(<<"text", NL, "text">>)>>)

MkSuite(name, tests, failures, disabled, errors, cases) ==
    [name |-> name, tests |-> tests, failures |-> failures, disabled |-> disabled,
     errors |-> errors, time |-> "", testsuite |-> cases]

PassingSuite == MkSuite("Passing", 1, 0, 0, 0, <<PassingCase>>)
FailingSuite == MkSuite("Failing", 2, 1, 0, 0, <<PassingCase, FailingCase>>)
\* counts that do not follow from the cases
UntrustedSuite == MkSuite("Untrusted", 5, 0, 1, 1, <<FailingCase>>)

MkUnitTest(tests, failures, disabled, errors, suites) ==
    [name |-> "AllTests", tests |-> tests, failures |-> failures, disabled |-> disabled,
     errors |-> errors, timestamp |-> "", time |-> "", testsuites |-> suites]

RECURSIVE SumField(_, _)
SumField(suites, f) ==
    IF suites = <<>> THEN 0 ELSE suites[1][f] + SumField(Tail(suites), f)

\* Reports a test_detail.json can hold: the totals are what the file says
ReportSuites == {PassingSuite, FailingSuite}
Reports ==
    {MkUnitTest(SumField(ss, "tests"), f, 0, e, ss) :
        ss \in SeqsUpTo(ReportSuites, MaxSuites), f \in 0..1, e \in 0..1}
ResultsFiles == {Missing, Unparsable} \cup {Parsed(r) : r \in Reports}

\* Logs: all texts over the tokens, or no file
LogFiles == {None} \cup {Some(t) : t \in SeqsUpTo(LogTokens, MaxLogLen)}
\* Logs of the test execution: one detector stands for the three
ExecLogTokens == {Detectors[1].search, "DEADLYSIGNAL", NL}
ExecLogFiles == {None} \cup {Some(t) : t \in SeqsUpTo(ExecLogTokens, MaxLogLen)}

EmptyReport == MkUnitTest(0, 0, 0, 0, <<>>)
NoRegion == [byte_offset |-> None, byte_length |-> None, start_line |-> None,
             start_column |-> None, end_line |-> None, end_column |-> None]

IdleTest ==
    /\ pc = "idle" /\ logFile = None /\ resultsFile = Missing
    /\ asan = None /\ gunit = None /\ final = None /\ stdout = <<>>
IdleSuite == report = EmptyReport /\ added = <<>>
IdleRegion == content = <<>> /\ region = NoRegion /\ range = None
IdleBuild ==
    /\ bpc = "idle" /\ lines = <<>> /\ diagnostics = <<>>
    /\ buildResult = None /\ emitted = <<>> /\ renders = 0

(***************************************************************************)
(* The test execution: exec_test's steps, then command's report            *)
(***************************************************************************)
InitTest ==
    /\ pc = "exec_test"
    /\ logFile \in ExecLogFiles
    /\ resultsFile \in ResultsFiles
    /\ asan = None /\ gunit = None /\ final = None /\ stdout = <<>>
    /\ IdleSuite /\ IdleRegion /\ IdleBuild

\* let asan = Asan::try_from_file(..), with its dump of the raw log
ReadAsan ==
    /\ pc = "exec_test"
    /\ LET r == Asan_try_from_file(logFile)
       IN /\ asan' = Some([ok |-> r.ok, suite |-> r.suite])
          /\ stdout' = IF IsSome(r.printed)
                       THEN Append(stdout, [kind |-> "log", text |-> Unwrap(r.printed)])
                       ELSE stdout
    /\ pc' = "asan_read"
    /\ UNCHANGED <<logFile, resultsFile, gunit, final, suiteVars, regionVars, buildVars>>

\* let gunit = UnitTest::try_from_file(results)
ReadGunit ==
    /\ pc = "asan_read"
    /\ gunit' = Some(UnitTest_try_from_file(resultsFile))
    /\ pc' = "gunit_read"
    /\ UNCHANGED <<logFile, resultsFile, asan, final, stdout, suiteVars, regionVars, buildVars>>

\* match (gunit, asan) { .. }
Fuse ==
    /\ pc = "gunit_read"
    /\ final' = Some(exec_test_match(Unwrap(gunit), Unwrap(asan)))
    /\ pc' = "fused"
    /\ UNCHANGED <<logFile, resultsFile, asan, gunit, stdout, suiteVars, regionVars, buildVars>>

\* run returns exec_test's result; command prints what it prints for it
CommandOutput(res) ==
    IF res.ok THEN <<>>
    ELSE (IF res.err.kind = "TestFailed"
          THEN <<[kind |-> "summary", lines |-> pretty_print(res.err.test)]>>
          ELSE <<>>)
         \o <<[kind |-> "error", err |-> res.err.kind]>>

Command ==
    /\ pc = "fused"
    /\ stdout' = stdout \o CommandOutput(Unwrap(final))
    /\ pc' = "done"
    /\ UNCHANGED <<logFile, resultsFile, asan, gunit, final, suiteVars, regionVars, buildVars>>

Next == ReadAsan \/ ReadGunit \/ Fuse \/ Command

Spec == InitTest /\ [][Next]_vars

(***************************************************************************)
(* The scanner alone, on every log                                         *)
(***************************************************************************)
InitScan ==
    /\ pc = "exec_test"
    /\ logFile \in LogFiles
    /\ resultsFile = Missing
    /\ asan = None /\ gunit = None /\ final = None /\ stdout = <<>>
    /\ IdleSuite /\ IdleRegion /\ IdleBuild

NextScan == ReadAsan

SpecScan == InitScan /\ [][NextScan]_vars

(***************************************************************************)
(* A report under a sequence of add_suite calls                            *)
(***************************************************************************)
AddSuites == {PassingSuite, FailingSuite, UntrustedSuite}

InitAdd ==
    /\ report \in {EmptyReport} \cup
                  {MkUnitTest(s.tests, s.failures, s.disabled, s.errors, <<s>>) : s \in AddSuites}
    /\ added = <<>>
    /\ IdleTest /\ IdleRegion /\ IdleBuild

AddSuite(suite) ==
    /\ Len(added) < MaxAdds
    /\ report' = add_suite(report, suite)
    /\ added' = Append(added, suite)
    /\ UNCHANGED <<testVars, regionVars, buildVars>>

NextAdd == \E suite \in AddSuites : AddSuite(suite)

SpecAdd == InitAdd /\ [][NextAdd]_vars

(***************************************************************************)
(* Properties of the test execution (Spec)                                 *)
(***************************************************************************)
Fused == pc \in {"fused", "done"}
Gunit == Unwrap(gunit)
AsanResult == Unwrap(asan)
Final == Unwrap(final)

\* the structured-report probe yields a report: Success or Failure
ProbeHasReport(g) == g.ok \/ g.err.kind = "TestFailed"
ProbeReport(g) == IF g.ok THEN g.val ELSE g.err.test
\* the final outcome carries a report: Success or TestFailed
CarriesReport(r) == r.ok \/ r.err.kind = "TestFailed"
CarriedReport(r) == IF r.ok THEN r.val ELSE r.err.test

\* C1: when the report probe yields a report, the final outcome is Success
\* exactly when both probes are Success, and otherwise it is TestFailed
\* carrying a report, never an execution error.
C1_FusionWithReport ==
    (Fused /\ ProbeHasReport(Gunit)) =>
        /\ Final.ok <=> (Gunit.ok /\ AsanResult.ok)
        /\ ~Final.ok => (Final.err.kind = "TestFailed"
                         /\ "testsuites" \in DOMAIN Final.err.test)
        /\ Final.ok => "testsuites" \in DOMAIN Final.val

C1_Witness ==
    /\ pc = "fused" /\ Gunit.ok /\ ~AsanResult.ok
    /\ ~Final.ok /\ Final.err.kind = "TestFailed"

\* C2 as stated: when the report probe yields no report, the final outcome
\* is the report probe's error for both sanitizer outcomes.
C2_ReportErrorAlwaysWins ==
    (Fused /\ ~ProbeHasReport(Gunit)) => Final = Err(Gunit.err)

\* C2 amended: when the report probe yields no report, a sanitizer Success
\* is discarded and the final outcome is the report probe's error; a
\* sanitizer Failure decides the outcome alone: ExecutionError when its
\* suite has errors > 0, otherwise TestFailed carrying a report made of the
\* sanitizer suite only.  The outcome is never Success.
C2_FusionWithoutReport ==
    (Fused /\ ~ProbeHasReport(Gunit)) =>
        /\ ~Final.ok
        /\ AsanResult.ok => Final = Err(Gunit.err)
        /\ (~AsanResult.ok /\ AsanResult.suite.errors > 0) =>
               Final.err.kind = "ExecutionError"
        /\ (~AsanResult.ok /\ AsanResult.suite.errors = 0) =>
               /\ Final.err.kind = "TestFailed"
               /\ Final.err.test.testsuites = <<AsanResult.suite>>
               /\ Final.err.test.failures = AsanResult.suite.failures

C2_Witness ==
    /\ pc = "fused" /\ ~ProbeHasReport(Gunit) /\ ~AsanResult.ok
    /\ Final.err.kind = "TestFailed"

\* C3: a final outcome that carries a report has the sanitizer suite in its
\* suite list exactly once, after the suites of the structured report, which
\* keep their order and content.
C3_SanitizerSuiteOnce ==
    (Fused /\ CarriesReport(Final)) =>
        LET suites == CarriedReport(Final).testsuites
            before == IF ProbeHasReport(Gunit) THEN ProbeReport(Gunit).testsuites ELSE <<>>
        IN /\ suites = before \o <<AsanResult.suite>>
           /\ Cardinality({i \in 1..Len(suites) : suites[i].name = "sanitizer"}) = 1

C3_Witness ==
    /\ pc = "fused" /\ CarriesReport(Final) /\ ~AsanResult.ok
    /\ Len(CarriedReport(Final).testsuites) = 3
    /\ CarriedReport(Final).testsuites[1] # CarriedReport(Final).testsuites[2]

(***************************************************************************)
(* Properties of add_suite (SpecAdd)                                       *)
(***************************************************************************)
Totals == {"tests", "failures", "disabled", "errors"}

\* C4: after every add_suite call each of the four totals is the sum of the
\* suites' own counts (not of their cases), and the suites passed are at the
\* end of the list in call order.
C4_TotalsAreSums ==
    /\ \A f \in Totals : report[f] = SumField(report.testsuites, f)
    /\ Len(report.testsuites) >= Len(added)
    /\ SubSeq(report.testsuites, Len(report.testsuites) - Len(added) + 1,
              Len(report.testsuites)) = added

C4_Witness ==
    /\ Len(added) >= 2
    /\ added[Len(added)] = UntrustedSuite
    /\ Len(report.testsuites) > Len(added)
    /\ report.failures # CountFailing(FlatCases(report.testsuites))

(***************************************************************************)
(* Properties of the scanner (SpecScan)                                    *)
(***************************************************************************)
Scanned == pc = "asan_read"
Suite == AsanResult.suite
LogText == Unwrap(logFile)
Occurs(text, literal) == \E i \in 1..Len(text) : text[i] = literal
\* the text after the first occurrence of a literal, up to the next line
\* break or, when there is none, to the end of the text
RECURSIVE UpToLineBreak(_)
UpToLineBreak(text) ==
    IF text = <<>> \/ Head(text) = NL THEN <<>>
    ELSE <<Head(text)>> \o UpToLineBreak(Tail(text))
RECURSIVE AfterFirst(_, _)
AfterFirst(text, literal) ==
    IF Head(text) = literal THEN Tail(text) ELSE AfterFirst(Tail(text), literal)

\* C5 as stated: a missing log gives the suite of an empty text: three
\* passing cases, tests = 3, failures = 0, errors = 0.
C5_MissingLogThreeTests ==
    (Scanned /\ logFile = None) =>
        /\ AsanResult.ok
        /\ Suite.tests = 3 /\ Suite.failures = 0 /\ Suite.errors = 0
        /\ Len(Suite.testsuite) = 3

\* C5 amended: a missing log is not an error: the scanner returns Success
\* with the default suite named sanitizer: no cases, tests = 0,
\* failures = 0, errors = 0, and nothing is dumped.
C5_MissingLogEmptySuite ==
    (Scanned /\ logFile = None) =>
        /\ AsanResult.ok
        /\ Suite.name = "sanitizer"
        /\ Suite.tests = 0 /\ Suite.failures = 0 /\ Suite.errors = 0
        /\ Suite.testsuite = <<>>
        /\ stdout = <<>>

C5_Witness == Scanned /\ logFile = None /\ AsanResult.ok /\ Suite.tests = 0

\* C6: a log that is present gives exactly 3 cases, for AddressSanitizer,
\* UndefinedBehaviorSanitizer and LeakSanitizer in this order, tests = 3 and
\* failures = the number of cases with a failure; without a marker and
\* without a crash indicator failures = 0 and errors = 0.
C6_ThreeCases ==
    (Scanned /\ logFile # None) =>
        /\ Len(Suite.testsuite) = 3
        /\ Suite.testsuite[1].name = "address_sanitizer"
        /\ Suite.testsuite[2].name = "undefined_behavior_sanitizer"
        /\ Suite.testsuite[3].name = "leak_sanitizer"
        /\ Suite.tests = 3
        /\ Suite.failures =
               Cardinality({i \in 1..3 : Len(Suite.testsuite[i].failures) > 0})
        /\ Suite.failures \in 0..3
        /\ (\A t \in LogTokens \ {"text", NL} : ~Occurs(LogText, t)) =>
               (Suite.failures = 0 /\ Suite.errors = 0)

C6_Witness ==
    /\ Scanned /\ logFile # None
    /\ Suite.failures = 1
    /\ Suite.testsuite[3].failures # <<>>

\* C7 as stated: a detector's case has a failure exactly when its marker
\* occurs in the text, and then exactly one, whose message is the text from
\* after the first marker up to the next line break, also on the last line.
C7_FailureIffMarker ==
    (Scanned /\ logFile # None) =>
        \A i \in 1..3 :
            LET marker == <<"ERROR: AddressSanitizer: ",
                            "ERROR: UndefinedBehaviorSanitizer: ",
                            "ERROR: LeakSanitizer: ">>[i]
                failures == Suite.testsuite[i].failures
            IN IF Occurs(LogText, marker)
               THEN /\ Len(failures) = 1
                    /\ failures[1].failure = UpToLineBreak(AfterFirst(LogText, marker))
               ELSE failures = <<>>

\* C8: errors = 1 exactly when the text contains DEADLYSIGNAL or ABORTING,
\* else 0; the outcome is Success exactly when failures = 0, whatever errors
\* is; the raw log is dumped exactly when the outcome is Failure.
C8_ErrorsIndependent ==
    Scanned =>
        /\ Suite.errors =
               IF logFile # None /\ (Occurs(LogText, "DEADLYSIGNAL")
                                     \/ Occurs(LogText, "ABORTING"))
               THEN 1 ELSE 0
        /\ AsanResult.ok <=> Suite.failures = 0
        /\ ~AsanResult.ok <=> Suite.failures > 0
        /\ stdout = IF AsanResult.ok THEN <<>>
                    ELSE <<[kind |-> "log", text |-> LogText]>>

C8_Witness ==
    /\ Scanned /\ logFile # None
    /\ Occurs(LogText, "DEADLYSIGNAL")
    /\ \A i \in 1..3 : Suite.testsuite[i].failures = <<>>
    /\ AsanResult.ok /\ Suite.errors = 1 /\ Suite.failures = 0

(***************************************************************************)
(* get_byte_range on every region descriptor and source text               *)
(***************************************************************************)
Bytes == {"a", NL, "H", "T"}
\* valid UTF-8: the two bytes of a two-byte character come together
WellFormed(source) ==
    /\ \A i \in 1..Len(source) : source[i] = "H" => (i < Len(source) /\ source[i + 1] = "T")
    /\ \A i \in 1..Len(source) : source[i] = "T" => (i > 1 /\ source[i - 1] = "H")

\* "line1\nline22\nline333\n"
ExampleContent ==
    <<"a", "a", "a", "a", "a", NL, "a", "a", "a", "a", "a", "a", NL,
      "a", "a", "a", "a", "a", "a", "a", NL>>

Contents == {c \in SeqsUpTo(Bytes, MaxContent) : WellFormed(c)} \cup {ExampleContent}

Opt(S) == {None} \cup {Some(v) : v \in S}
Regions ==
    [byte_offset : Opt(0..MaxPos), byte_length : Opt(0..MaxPos),
     start_line : Opt(1..MaxPos), start_column : Opt(1..MaxPos),
     end_line : Opt(1..MaxPos), end_column : Opt(1..MaxPos)]

InitRegion ==
    /\ content \in Contents
    /\ region \in Regions
    /\ range = None
    /\ IdleTest /\ IdleSuite /\ IdleBuild

GetByteRange ==
    /\ range = None
    /\ range' = Some(get_byte_range(content, region))
    /\ UNCHANGED <<content, region, testVars, suiteVars, buildVars>>

NextRegion == GetByteRange

SpecRegion == InitRegion /\ [][NextRegion]_vars

(***************************************************************************)
(* Properties of get_byte_range (SpecRegion)                               *)
(***************************************************************************)
Range == Unwrap(range)

\* Lines and columns of a text, stated on its characters: line L starts
\* after the (L-1)th line break and runs through the Lth line break (or to
\* the end of the text); a column is a character of the line, its line
\* break included.
LineBreaks(source) == {i \in 1..Len(source) : source[i] = NL}
LineFirst(source, L) ==
    IF L = 1 THEN 0
    ELSE CHOOSE i \in LineBreaks(source) :
             Cardinality({j \in LineBreaks(source) : j <= i}) = L - 1
LineExists(source, L) == L = 1 \/ Cardinality(LineBreaks(source)) >= L - 1
\* offset after the last byte of line L, its line break included
LineLimit(source, L) ==
    IF Cardinality(LineBreaks(source)) >= L
    THEN CHOOSE i \in LineBreaks(source) :
             Cardinality({j \in LineBreaks(source) : j <= i}) = L
    ELSE Len(source)
\* offsets of the first bytes of the characters of line L
LineChars(source, L) ==
    IF LineExists(source, L)
    THEN {b \in LineFirst(source, L)..(LineLimit(source, L) - 1) : source[b + 1] # "T"}
    ELSE {}
\* the offset of the character at (L, C), if there is one
Resolve(source, L, C) ==
    LET chars == LineChars(source, L)
    IN IF Cardinality(chars) >= C
       THEN Some(CHOOSE b \in chars : Cardinality({c \in chars : c <= b}) = C)
       ELSE None

\* C9: the start is the byte offset when present, else the position
\* resolved from (startLine, startColumn or 1); without a start the region
\* is (0,0); with a start and a byte length end = start + length; otherwise
\* the end is resolved from (endLine or startLine, endColumn or the last
\* column of that line), and is the start when that cannot be resolved.
C9_RegionPrecedence ==
    range # None =>
        LET start == IF region.byte_offset # None THEN region.byte_offset
                     ELSE IF region.start_line # None
                     THEN Resolve(content, Unwrap(region.start_line),
                                  IF region.start_column # None
                                  THEN Unwrap(region.start_column) ELSE 1)
                     ELSE None
            end_line == IF region.end_line # None THEN region.end_line
                        ELSE region.start_line
            end_column == IF region.end_column # None THEN region.end_column
                          ELSE IF end_line # None
                                  /\ LineChars(content, Unwrap(end_line)) # {}
                          THEN Some(Cardinality(LineChars(content, Unwrap(end_line))))
                          ELSE None
            end == IF end_line # None /\ end_column # None
                   THEN Resolve(content, Unwrap(end_line), Unwrap(end_column))
                   ELSE None
        IN IF start = None THEN Range = [start |-> 0, end |-> 0]
           ELSE /\ Range.start = Unwrap(start)
                /\ Range.end = IF region.byte_length # None
                               THEN Unwrap(start) + Unwrap(region.byte_length)
                               ELSE IF end # None THEN Unwrap(end)
                               ELSE Unwrap(start)

C9_Witness ==
    /\ range # None
    /\ region.byte_offset # None /\ region.start_line # None
    /\ region.byte_length = None /\ region.end_column = None
    /\ Range.start = Unwrap(region.byte_offset)
    /\ Range.end # Range.start
    /\ Resolve(content, Unwrap(region.start_line), 1) # None
    /\ Resolve(content, Unwrap(region.start_line), 1) # region.byte_offset

\* the lines of a text that hold at least one byte
TextLines(source) ==
    {L \in 1..(Len(source) + 1) : LineExists(source, L)
                                  /\ LineFirst(source, L) < Len(source)}
\* offset after the text of line L, its line break excluded
LineTextEnd(source, L) ==
    IF Cardinality(LineBreaks(source)) >= L
    THEN LineLimit(source, L) - 1 ELSE Len(source)

\* C10 as stated: for every line L of the text, the region (startLine = L,
\* startColumn = 1, endLine = L, no endColumn) starts at the first byte of
\* line L and spans the text of the line without its line break, also for
\* a last line without a line break.
C10_WholeLine ==
    (/\ range # None
     /\ region.byte_offset = None /\ region.byte_length = None
     /\ region.start_line # None /\ region.start_column = Some(1)
     /\ region.end_line = region.start_line /\ region.end_column = None
     /\ Unwrap(region.start_line) \in TextLines(content))
    => Range = [start |-> LineFirst(content, Unwrap(region.start_line)),
                end |-> LineTextEnd(content, Unwrap(region.start_line))]

\* C11 as stated: every region get_byte_range produces has end >= start,
\* whatever fields of the descriptor are present.
C11_EndNotBeforeStart ==
    range # None => Range.end >= Range.start

(***************************************************************************)
(* src/sarif.rs: BuildDiagnostic                                           *)
(***************************************************************************)
MkArtifact(uri, base, text) == [uri |-> uri, uriBaseId |-> base, text |-> text]
MkResult(level, message, uri, base, reg) ==
    [level |-> level, message |-> message, uri |-> uri, uriBaseId |-> base,
     region |-> reg]
MkRun(artifacts, results) == [artifacts |-> artifacts, results |-> results]

\* files.add(name, content) for every artifact: file id i is files[i + 1]
RegisterFiles(artifacts) ==
    [i \in 1..Len(artifacts) |-> [name |-> artifacts[i].uri, source |-> artifacts[i].text]]

\* files_map.get(&(parent, name)): the id inserted last under the key
files_map_get(artifacts, parent, name) ==
    LET hits == {i \in 1..Len(artifacts) :
                    artifacts[i].uriBaseId = parent /\ artifacts[i].uri = name}
    IN IF hits = {} THEN None
       ELSE Some((CHOOSE i \in hits : \A j \in hits : j <= i) - 1)

\* result.level ... .as_str().unwrap_or("error"), then match level.as_str()
SeverityOf(level) ==
    LET text == IF IsSome(level) THEN Unwrap(level) ELSE "error"
    IN IF text = "error" THEN "Error"
       ELSE IF text = "warning" THEN "Warning"
       ELSE "Note"

\* One result of a run: None when files_map.get(..).unwrap() panics
ExtractResult(artifacts, result) ==
    LET id == files_map_get(artifacts, result.uriBaseId, result.uri)
    IN IF ~IsSome(id) THEN None
       ELSE Some([severity |-> SeverityOf(result.level),
                  message |-> result.message,
                  labels |-> <<[file_id |-> Unwrap(id),
                                range |-> get_byte_range(artifacts[Unwrap(id) + 1].text,
                                                         result.region),
                                message |-> result.message]>>])

\* A panic in any element of a loop ends the whole loop: None, else the
\* elements collected in order
AllOrNone(xs) ==
    IF \E i \in 1..Len(xs) : xs[i] = None THEN None
    ELSE Some([i \in 1..Len(xs) |-> Unwrap(xs[i])])

\* diagnostics.0.push((files, run_diagnostics))
PushedRun(artifacts, ds) ==
    IF ds = None THEN None
    ELSE Some([files |-> RegisterFiles(artifacts), diagnostics |-> Unwrap(ds)])

\* One run: (files, run_diagnostics), or None when a result panics
ExtractRun(run) ==
    PushedRun(run.artifacts,
              AllOrNone([i \in 1..Len(run.results) |->
                            ExtractResult(run.artifacts, run.results[i])]))

\* impl From<Sarif> for BuildDiagnostic: None when the conversion panics
BuildDiagnostic_from(sarif) ==
    AllOrNone([i \in 1..Len(sarif) |-> ExtractRun(sarif[i])])

\* BuildDiagnostic::has_errors
has_errors(self) ==
    \E r \in 1..Len(self) : \E d \in 1..Len(self[r].diagnostics) :
        self[r].diagnostics[d].severity = "Error"

\* impl AddAssign for BuildDiagnostic
add_assign(self, other) == self \o other

\* codespan_reporting Severity, in its declared order (the derived PartialOrd)
SeverityRank(severity) ==
    CASE severity = "Help" -> 0
      [] severity = "Note" -> 1
      [] severity = "Warning" -> 2
      [] severity = "Error" -> 3
      [] severity = "Bug" -> 4

\* a.severity.partial_cmp(&b.severity)
partial_cmp(a, b) ==
    IF SeverityRank(a.severity) < SeverityRank(b.severity) THEN "Less"
    ELSE IF SeverityRank(a.severity) > SeverityRank(b.severity) THEN "Greater"
    ELSE "Equal"

\* A sort by insertion from the left: d goes before the trailing elements
\* that compare Greater than it, and, when ties are not kept in order,
\* before those that compare Equal
RECURSIVE InsertBy(_, _, _)
InsertBy(sorted, d, stable) ==
    IF sorted = <<>> THEN <<d>>
    ELSE IF \/ partial_cmp(sorted[Len(sorted)], d) = "Greater"
            \/ (~stable /\ partial_cmp(sorted[Len(sorted)], d) = "Equal")
    THEN Append(InsertBy(SubSeq(sorted, 1, Len(sorted) - 1), d, stable),
                sorted[Len(sorted)])
    ELSE Append(sorted, d)

RECURSIVE SortBy(_, _)
SortBy(ds, stable) ==
    IF ds = <<>> THEN <<>>
    ELSE InsertBy(SortBy(SubSeq(ds, 1, Len(ds) - 1), stable), ds[Len(ds)], stable)

sort_by_severity_unstable(ds) == SortBy(ds, FALSE)

\* diagnostics.sort_by(|a, b| a.severity.partial_cmp(&b.severity).unwrap()):
\* slice::sort_by is a stable sort
sort_by_severity(ds) == SortBy(ds, TRUE)

RECURSIVE EmitRuns(_)
EmitRuns(self) ==
    IF self = <<>> THEN <<>>
    ELSE LET sorted == sort_by_severity(self[1].diagnostics)
         IN [i \in 1..Len(sorted) |-> [files |-> self[1].files, diagnostic |-> sorted[i]]]
            \o EmitRuns(Tail(self))

\* BuildDiagnostic::pretty_print: the term::emit calls, in order
BuildDiagnostic_pretty_print(self) == EmitRuns(self)

\* BuildDiagnostic::pretty_print sorts a clone: self is as before
after_pretty_print(self) == self

(***************************************************************************)
(* The build: exec_build reads the compiler's stderr line by line, then    *)
(* run (on Ok) or command (on BuildFailed) prints the diagnostics          *)
(***************************************************************************)
SourceA == MkArtifact("a.c", "SRC", <<"a", NL>>)
SourceB == MkArtifact("b.c", "SRC", <<"a", "a", NL>>)
FirstByte == [NoRegion EXCEPT !.byte_offset = Some(0), !.byte_length = Some(1)]

ArtifactLists == {<<SourceA>>, <<SourceA, SourceB>>}
\* a result without level in a.c, a note in b.c
BuildResults ==
    {MkResult(None, "m1", "a.c", "SRC", FirstByte),
     MkResult(Some("note"), "m2", "b.c", "SRC", FirstByte)}
BuildRuns ==
    {MkRun(as, rs) : as \in ArtifactLists, rs \in SeqsUpTo(BuildResults, MaxFindings)}
NotJson == [kind |-> "text"]
SarifLine(sarif) == [kind |-> "sarif", runs |-> sarif]
StderrLines == {NotJson} \cup {SarifLine(s) : s \in SeqsUpTo(BuildRuns, MaxRuns)}

BuildFailed(diags) == [kind |-> "BuildFailed", diagnostics |-> diags]

InitBuild ==
    /\ bpc = "exec_build" /\ lines = <<>> /\ diagnostics = <<>>
    /\ buildResult = None /\ emitted = <<>> /\ renders = 0
    /\ IdleTest /\ IdleSuite /\ IdleRegion

\* for report in build.stderr.lines(): a line that is no report is skipped,
\* a report is converted and its runs appended; a panic ends the process
ReadLine(line) ==
    /\ bpc = "exec_build"
    /\ Len(lines) < MaxLines
    /\ lines' = Append(lines, line)
    /\ IF line.kind # "sarif"
       THEN UNCHANGED <<bpc, diagnostics>>
       ELSE LET converted == BuildDiagnostic_from(line.runs)
            IN IF IsSome(converted)
               THEN /\ diagnostics' = add_assign(diagnostics, Unwrap(converted))
                    /\ UNCHANGED bpc
               ELSE /\ bpc' = "panic"
                    /\ UNCHANGED diagnostics
    /\ UNCHANGED <<buildResult, emitted, renders, testVars, suiteVars, regionVars>>

\* exec_build: the end of stderr, if diagnostics.has_errors() { Err } else { Ok }
FinishBuild ==
    /\ bpc = "exec_build"
    /\ buildResult' = Some(IF has_errors(diagnostics)
                           THEN Err(BuildFailed(diagnostics))
                           ELSE Ok(diagnostics))
    /\ bpc' = "built"
    /\ UNCHANGED <<lines, diagnostics, emitted, renders, testVars, suiteVars, regionVars>>

\* run: diagnostics.pretty_print() on Ok; command: the same on BuildFailed
PrintBuild ==
    /\ bpc = "built"
    /\ emitted' = emitted \o BuildDiagnostic_pretty_print(diagnostics)
    /\ diagnostics' = after_pretty_print(diagnostics)
    /\ renders' = renders + 1
    /\ bpc' = IF Unwrap(buildResult).ok THEN "run_tests" ELSE "failed"
    /\ UNCHANGED <<lines, buildResult, testVars, suiteVars, regionVars>>

NextBuild == (\E line \in StderrLines : ReadLine(line)) \/ FinishBuild \/ PrintBuild

SpecBuild == InitBuild /\ [][NextBuild]_vars

\* the runs of a report whose results all name a registered artifact
Registered(run, result) ==
    \E i \in 1..Len(run.artifacts) :
        /\ run.artifacts[i].uri = result.uri
        /\ run.artifacts[i].uriBaseId = result.uriBaseId
Resolvable(run) == \A i \in 1..Len(run.results) : Registered(run, run.results[i])
RECURSIVE ExtractedRuns(_)
ExtractedRuns(runs) ==
    IF runs = <<>> THEN <<>>
    ELSE (IF Resolvable(runs[1]) THEN <<Unwrap(ExtractRun(runs[1]))>> ELSE <<>>)
         \o ExtractedRuns(Tail(runs))
RECURSIVE ExpectedDiagnostics(_)
ExpectedDiagnostics(read) ==
    IF read = <<>> THEN <<>>
    ELSE (IF read[1].kind = "sarif" THEN ExtractedRuns(read[1].runs) ELSE <<>>)
         \o ExpectedDiagnostics(Tail(read))

\* C12 as stated: a finding that references an unregistered artifact aborts
\* the extraction of its run only: the extraction as a whole goes on, and
\* the runs collected before and the other runs of the same report are kept.
C12_UnresolvedAbortsRunOnly ==
    /\ bpc # "panic"
    /\ diagnostics = ExpectedDiagnostics(lines)

(***************************************************************************)
(* BuildDiagnostic::pretty_print called any number of times on a           *)
(* BuildDiagnostic that BuildDiagnostic::from produced                     *)
(***************************************************************************)
RenderResults ==
    {MkResult(None, "m1", "a.c", "SRC", FirstByte),
     MkResult(Some("warning"), "m1", "a.c", "SRC", FirstByte),
     MkResult(Some("warning"), "m2", "a.c", "SRC", FirstByte)}
\* Runs of up to MaxFindings findings, no finding twice in a run, so that
\* the order of two findings of one severity shows in what is emitted
RenderRuns ==
    {MkRun(<<SourceA>>, rs) :
        rs \in {s \in SeqsUpTo(RenderResults, MaxFindings) :
                   \A i, j \in 1..Len(s) : s[i] = s[j] => i = j}}

\* The set extracted from one report of up to MaxRuns runs
InitRender ==
    /\ bpc = "render"
    /\ \E n \in 0..MaxRuns : \E sarif \in [1..n -> RenderRuns] :
          /\ lines = <<SarifLine(sarif)>>
          /\ diagnostics = Unwrap(BuildDiagnostic_from(sarif))
    /\ buildResult = None /\ emitted = <<>> /\ renders = 0
    /\ IdleTest /\ IdleSuite /\ IdleRegion

Render ==
    /\ bpc = "render"
    /\ renders < MaxRenders
    /\ emitted' = emitted \o BuildDiagnostic_pretty_print(diagnostics)
    /\ diagnostics' = after_pretty_print(diagnostics)
    /\ renders' = renders + 1
    /\ UNCHANGED <<bpc, lines, buildResult, testVars, suiteVars, regionVars>>

NextRender == Render

SpecRender == InitRender /\ [][NextRender]_vars

\* One render of a set, stated by severity: run by run, the notes of the
\* run in their stored order, then its warnings, then its errors
OfSeverity(ds, severity) == SelectSeq(ds, LAMBDA d : d.severity = severity)
RECURSIVE RenderedOnce(_)
RenderedOnce(set) ==
    IF set = <<>> THEN <<>>
    ELSE LET ds == set[1].diagnostics
             ordered == OfSeverity(ds, "Note") \o OfSeverity(ds, "Warning")
                        \o OfSeverity(ds, "Error")
         IN [i \in 1..Len(ordered) |-> ordered[i]] \o RenderedOnce(Tail(set))
RECURSIVE Repeated(_, _)
Repeated(s, n) == IF n = 0 THEN <<>> ELSE s \o Repeated(s, n - 1)

\* C13: every render emits, run by run in run order, the diagnostics of the
\* run in ascending severity, equal severities in their stored order; and a
\* render leaves the stored diagnostics as they were.
C13_RenderOrder ==
    bpc = "render" =>
        LET expected == Repeated(RenderedOnce(diagnostics), renders)
        IN /\ Len(emitted) = Len(expected)
           /\ \A i \in 1..Len(emitted) : emitted[i].diagnostic = expected[i]
           /\ diagnostics = ExpectedDiagnostics(lines)

C13_Witness ==
    /\ renders = 2
    /\ Len(diagnostics) = 2
    /\ Len(diagnostics[1].diagnostics) = 2
    /\ Len(diagnostics[2].diagnostics) = 2
    /\ Len(emitted) = 8
    /\ diagnostics[1].diagnostics[1].severity = "Error"
    /\ diagnostics[1].diagnostics[2].severity = "Warning"
    /\ diagnostics[2].diagnostics[1].severity = "Warning"
    /\ diagnostics[2].diagnostics[2].severity = "Warning"
    /\ diagnostics[2].diagnostics[1].message = "m2"
    /\ emitted[1].diagnostic.severity = "Warning"
    /\ emitted[3].diagnostic.message = "m2"

(***************************************************************************)
(* The test summary printed by command for a TestFailed outcome            *)
(***************************************************************************)
OfKind(printed, kind) == SelectSeq(printed, LAMBDA l : l.kind = kind)
Positions(printed, kind) == {i \in 1..Len(printed) : printed[i].kind = kind}

\* The summary of a report, stated on its cases: one pass/fail line per
\* case, one detail block per case with a failure, the tally last
SummaryOf(printed, test) ==
    LET cases == FlatCases(test.testsuites)
        failing == SelectFailing(cases)
        tests == OfKind(printed, "test")
        details == OfKind(printed, "details")
    IN /\ Len(tests) = Len(cases)
       /\ \A i \in 1..Len(cases) :
             /\ tests[i].classname = cases[i].classname
             /\ tests[i].name = cases[i].name
             /\ tests[i].failed <=> (cases[i].failures # <<>>)
       /\ Len(details) = Len(failing)
       /\ \A i \in 1..Len(failing) :
             /\ details[i].classname = failing[i].classname
             /\ details[i].name = failing[i].name
             /\ details[i].first = <<failing[i].failures[1]>>
             /\ details[i].more = Len(failing[i].failures) - 1
       /\ Positions(printed, "result") = {Len(printed)}
       /\ \A t \in Positions(printed, "test"), d \in Positions(printed, "details") : t < d

\* C14 as stated: every summary printed has a pass/fail line per case, a
\* detail block for every case with a failure whatever the report's
\* failures count is, and the tally after them.
C14_SummaryComplete ==
    \A e \in 1..Len(stdout) :
        stdout[e].kind = "summary" =>
            SummaryOf(stdout[e].lines, CarriedReport(Final))

\* C15 as stated: the probes are read before their outcomes are fused,
\* no summary is rendered before the fusion, and once command has returned, a
\* final outcome that carries a report (Success or Failure) has had its
\* summary rendered exactly once.
C15_ReadFuseRender ==
    /\ final # None => (asan # None /\ gunit # None)
    /\ OfKind(stdout, "summary") # <<>> => final # None
    /\ (pc = "done" /\ CarriesReport(Final)) =>
           /\ Len(OfKind(stdout, "summary")) = 1
           /\ OfKind(stdout, "summary")[1].lines = pretty_print(CarriedReport(Final))

\* C16 as stated: a final outcome that carries a report agrees with it:
\* Success carries a report whose has_failed() is false, Failure one whose
\* has_failed() is true, for every sanitizer log.
C16_OutcomeAgreesWithReport ==
    (Fused /\ CarriesReport(Final)) =>
        (Final.ok <=> ~has_failed(CarriedReport(Final)))

====
